---------------------------- MODULE Spec2Model ----------------------------
(***************************************************************************)
(* Model of src/src/audio.c (Commander X16 emulator audio pacing):        *)
(* the clock accumulator of audio_render, the mixer, the ring of frame     *)
(* buffers shared between the emulator thread (audio_init, audio_close,    *)
(* audio_render) and SDL's audio thread (audio_callback), and the SDL      *)
(* device with its lock.                                                   *)
(*                                                                         *)
(* A frame is kept as FrameLen samples (the code's 2 * SAMPLES_PER_BUFFER  *)
(* interleaved samples).  <<>> stands for memory that holds no defined     *)
(* frame: a slot fresh from malloc, or an output region not yet written.   *)
(***************************************************************************)
EXTENDS Integers, Sequences, FiniteSets, TLC

VARIABLES
    audio_dev,          \* SDL_AudioDeviceID, 0 = no device
    vera_clks,          \* audio.c:24
    cpu_clks,           \* audio.c:25
    buffers,            \* the slot array, indexed 0..num_bufs-1; <<>> = NULL
    rdidx, wridx,       \* audio.c:27-28
    buf_cnt,            \* audio.c:29
    num_bufs,           \* audio.c:30
    sdl,                \* the SDL device: "closed", or "playing" once started
    lock,               \* holder of the device lock: "free", "producer", "callback"
    pc,                 \* position of the emulator thread
    ret,                \* where audio_close returns to
    dev_name,           \* argument of the latest audio_init
    num_audio_buffers,  \* argument of the latest audio_init
    psg_buf, pcm_buf, ym_buf,   \* locals of audio_render's loop body
    buf_available,      \* local of audio_render's loop body
    cb,                 \* position of the audio thread: "idle" or "run"
    len,                \* argument of the running / latest audio_callback
    stream,             \* output region of the running / latest audio_callback
    proc,               \* "running", "exited" (exit()) or "crashed"
    last,               \* history: the latest call made by the emulator thread
    tot_ticks,          \* history: sum of cpu_clocks over the calls that passed line 148
    triggers,           \* history: iterations of the while loop of line 159
    calls,              \* history: audio_render calls counted by the clock specification
    pushed,             \* history: frames committed in this session, in order
    popped              \* history: frames copied out in this session, in order

vars == <<audio_dev, vera_clks, cpu_clks, buffers, rdidx, wridx, buf_cnt, num_bufs,
          sdl, lock, pc, ret, dev_name, num_audio_buffers, psg_buf, pcm_buf, ym_buf,
          buf_available, cb, len, stream, proc, last, tot_ticks, triggers, calls,
          pushed, popped>>

ring   == <<rdidx, wridx, buf_cnt, buffers>>
clocks == <<vera_clks, cpu_clks>>
locals == <<psg_buf, pcm_buf, ym_buf, buf_available>>
hist   == <<tot_ticks, triggers, calls, pushed, popped>>

----------------------------------------------------------------------------
(* Program constants *)

SAMPLES_PER_BUFFER == 256
CpuPerGroup == 8
VeraPerGroup == 25
ClksPerSample == 512
MinBufs == 3
MaxBufs == 1024
SampleBytes == 2
Channels == 2
MixSources == 3
DevId == 2

Threshold == ClksPerSample * SAMPLES_PER_BUFFER
Expected  == Channels * SAMPLES_PER_BUFFER * SampleBytes

(* Bounds of the model *)

FrameLen == 2
MaxTriggers == 4
MaxCalls == 4

(* Inputs *)

DevNames == {"none", "default"}
Requests == {1, 4}
Lens == {Expected, 2 * Expected}
SessionTicks == {0, 41944, 83888}
ClockTicks == {0, 7, 8, 9, 41936, 83880}
SourceSamples == {<<3, 4, 5>>, <<-2, -2, -1>>}
GarbageSamples == {7}

----------------------------------------------------------------------------
(* Frames and the mixer *)

Fill(v) == [i \in 1..FrameLen |-> v]
Silence == Fill(0)
GarbageFrames == {Fill(v) : v \in GarbageSamples}

\* A division that rounds toward minus infinity.
CDiv_floor(a, b) == a \div b

\* C's integer division: the quotient is truncated toward zero.
CDiv(a, b) == IF a >= 0 THEN a \div b ELSE -((-a) \div b)

\* The conversion of an int to int16_t on the store into buf[i].
ToInt16(x) == ((x + 32768) % 65536) - 32768

MixSample(a, b, c) == ToInt16(CDiv(a + b + c, MixSources))

Mix(a, b, c) == [i \in 1..FrameLen |-> MixSample(a[i], b[i], c[i])]

\* A clamp that forgets the lower limit.
Clamp_nofloor(n) == IF n > MaxBufs THEN MaxBufs ELSE n

Clamp(n) == IF n < MinBufs THEN MinBufs ELSE IF n > MaxBufs THEN MaxBufs ELSE n

InBounds(i) == i \in DOMAIN buffers

\* What a read of buffers[i] can deliver: the slot's frame, or anything when the
\* slot was never written or i is outside the array.
SlotRead(i) == IF InBounds(i) /\ buffers[i] # <<>> THEN {buffers[i]} ELSE GarbageFrames

\* Whether an access of buffers[i] can end the process: only outside the array.
MayCrash(i) == IF InBounds(i) THEN {FALSE} ELSE {FALSE, TRUE}

----------------------------------------------------------------------------
Init ==
    /\ audio_dev = 0
    /\ vera_clks = 0
    /\ cpu_clks = 0
    /\ buffers = <<>>
    /\ rdidx = 0
    /\ wridx = 0
    /\ buf_cnt = 0
    /\ num_bufs = 0
    /\ sdl = "closed"
    /\ lock = "free"
    /\ pc = "idle"
    /\ ret = "idle"
    /\ dev_name = "unset"
    /\ num_audio_buffers = 0
    /\ psg_buf = <<>>
    /\ pcm_buf = <<>>
    /\ ym_buf = <<>>
    /\ buf_available = FALSE
    /\ cb = "idle"
    /\ len = 0
    /\ stream = <<>>
    /\ proc = "running"
    /\ last = "none"
    /\ tot_ticks = 0
    /\ triggers = 0
    /\ calls = 0
    /\ pushed = <<>>
    /\ popped = <<>>

----------------------------------------------------------------------------
(* audio_init *)

\* lines 57-62: entry; an open device is closed first
audio_init(name, n) ==
    /\ proc = "running"
    /\ pc = "idle"
    /\ dev_name' = name
    /\ num_audio_buffers' = n
    /\ last' = "audio_init"
    /\ IF audio_dev > 0
         THEN pc' = "close_sdl" /\ ret' = "init_body"
         ELSE pc' = "init_body" /\ ret' = ret
    /\ UNCHANGED <<audio_dev, clocks, ring, num_bufs, sdl, lock, locals, cb, len,
                   stream, proc, hist>>

\* lines 64-120: "none" returns at once; otherwise clamp, allocate, open, start
init_body ==
    /\ proc = "running"
    /\ pc = "init_body"
    /\ IF dev_name = "none"
         THEN /\ pc' = "idle"
              /\ UNCHANGED <<audio_dev, buffers, num_bufs, sdl, proc, pushed, popped>>
         ELSE \E outcome \in {"ok", "nomem", "noopen"} :
                /\ num_bufs' = Clamp(num_audio_buffers)
                /\ CASE outcome = "nomem" ->
                          /\ proc' = "exited"
                          /\ UNCHANGED <<audio_dev, buffers, sdl, pc, pushed, popped>>
                     [] outcome = "noopen" ->
                          /\ buffers' = [i \in 0..(num_bufs' - 1) |-> <<>>]
                          /\ audio_dev' = 0
                          /\ proc' = "exited"
                          /\ UNCHANGED <<sdl, pc, pushed, popped>>
                     [] outcome = "ok" ->
                          /\ buffers' = [i \in 0..(num_bufs' - 1) |-> <<>>]
                          /\ audio_dev' = DevId
                          /\ sdl' = "playing"
                          /\ pc' = "idle"
                          /\ pushed' = <<>>
                          /\ popped' = <<>>
                          /\ UNCHANGED proc
    /\ UNCHANGED <<clocks, rdidx, wridx, buf_cnt, lock, ret, dev_name,
                   num_audio_buffers, locals, cb, len, stream, last,
                   tot_ticks, triggers, calls>>

----------------------------------------------------------------------------
(* audio_close *)

\* A shutdown that does not look whether a device is open.
AlreadyClosed_unchecked == FALSE

\* line 125
AlreadyClosed == audio_dev = 0

\* lines 122-127: entry
audio_close ==
    /\ proc = "running"
    /\ pc = "idle"
    /\ last' = "audio_close"
    /\ IF AlreadyClosed
         THEN UNCHANGED <<pc, ret>>
         ELSE pc' = "close_sdl" /\ ret' = "idle"
    /\ UNCHANGED <<audio_dev, clocks, ring, num_bufs, sdl, lock, dev_name,
                   num_audio_buffers, locals, cb, len, stream, proc, hist>>

\* A shutdown that goes on to release the slots with the device still playing.
close_sdl_skipped ==
    /\ proc = "running"
    /\ pc = "close_sdl"
    /\ pc' = "close_dev0"
    /\ UNCHANGED <<audio_dev, clocks, ring, num_bufs, sdl, lock, ret, dev_name,
                   num_audio_buffers, locals, cb, len, stream, proc, last, hist>>

\* line 129: SDL_CloseAudioDevice returns once the audio thread has ended
close_sdl ==
    /\ proc = "running"
    /\ pc = "close_sdl"
    /\ cb = "idle"
    /\ sdl' = "closed"
    /\ pc' = "close_dev0"
    /\ UNCHANGED <<audio_dev, clocks, ring, num_bufs, lock, ret, dev_name,
                   num_audio_buffers, locals, cb, len, stream, proc, last, hist>>

\* line 130
close_dev0 ==
    /\ proc = "running"
    /\ pc = "close_dev0"
    /\ audio_dev' = 0
    /\ pc' = "close_free"
    /\ UNCHANGED <<clocks, ring, num_bufs, sdl, lock, ret, dev_name,
                   num_audio_buffers, locals, cb, len, stream, proc, last, hist>>

\* lines 132-142: every slot and the slot array are freed, buffers = NULL
close_free ==
    /\ proc = "running"
    /\ pc = "close_free"
    /\ buffers' = <<>>
    /\ pc' = ret
    /\ UNCHANGED <<audio_dev, clocks, rdidx, wridx, buf_cnt, num_bufs, sdl, lock, ret,
                   dev_name, num_audio_buffers, locals, cb, len, stream, proc, last,
                   hist>>

----------------------------------------------------------------------------
(* audio_render *)

\* lines 152-157: the clock accumulator
CpuAfter(c) == IF c > CpuPerGroup THEN c - (c \div CpuPerGroup) * CpuPerGroup ELSE c

\* A conversion that rounds the whole count instead of carrying the remainder.
VeraAfter_rounded(v, c) == v + (c * VeraPerGroup) \div CpuPerGroup

VeraAfter(v, c) == IF c > CpuPerGroup THEN v + (c \div CpuPerGroup) * VeraPerGroup ELSE v

\* A guard that never takes the early return.
NoDevice_unchecked == FALSE

\* line 148: the test that makes audio_render a no-op without a device
NoDevice == audio_dev = 0

\* lines 145-157: entry, no-op without a device, else advance the clocks
\* (the history variable calls is left to the specification)
audio_render(cpu_clocks) ==
    /\ proc = "running"
    /\ pc = "idle"
    /\ last' = "audio_render"
    /\ IF NoDevice
         THEN UNCHANGED <<clocks, pc, tot_ticks>>
         ELSE /\ cpu_clks' = CpuAfter(cpu_clks + cpu_clocks)
              /\ vera_clks' = VeraAfter(vera_clks, cpu_clks + cpu_clocks)
              /\ triggers + (vera_clks' \div Threshold) <= MaxTriggers
              /\ tot_ticks' = tot_ticks + cpu_clocks
              /\ pc' = "render_loop"
    /\ UNCHANGED <<audio_dev, ring, num_bufs, sdl, lock, ret, dev_name,
                   num_audio_buffers, locals, cb, len, stream, proc, triggers,
                   pushed, popped>>

\* lines 159-169: the loop test; one trigger renders the three sources
render_loop ==
    /\ proc = "running"
    /\ pc = "render_loop"
    /\ IF vera_clks >= Threshold
         THEN /\ vera_clks' = vera_clks - Threshold
              /\ triggers' = triggers + 1
              /\ \E s \in SourceSamples :
                    /\ psg_buf' = Fill(s[1])
                    /\ pcm_buf' = Fill(s[2])
                    /\ ym_buf' = Fill(s[3])
              /\ pc' = "render_lock1"
         ELSE /\ pc' = "idle"
              /\ UNCHANGED <<vera_clks, triggers, psg_buf, pcm_buf, ym_buf>>
    /\ UNCHANGED <<audio_dev, cpu_clks, ring, num_bufs, sdl, lock, ret, dev_name,
                   num_audio_buffers, buf_available, cb, len, stream, proc, last,
                   tot_ticks, calls, pushed, popped>>

\* A producer that goes to the availability check without taking the lock.
render_lock1_nolock ==
    /\ proc = "running"
    /\ pc = "render_lock1"
    /\ pc' = "render_check"
    /\ UNCHANGED <<audio_dev, clocks, ring, num_bufs, sdl, lock, ret, dev_name,
                   num_audio_buffers, locals, cb, len, stream, proc, last, hist>>

\* line 172: SDL_LockAudioDevice
render_lock1 ==
    /\ proc = "running"
    /\ pc = "render_lock1"
    /\ lock = "free"
    /\ lock' = "producer"
    /\ pc' = "render_check"
    /\ UNCHANGED <<audio_dev, clocks, ring, num_bufs, sdl, ret, dev_name,
                   num_audio_buffers, locals, cb, len, stream, proc, last, hist>>

\* A producer that waits, lock in hand, until a slot is free.
render_check_wait ==
    /\ proc = "running"
    /\ pc = "render_check"
    /\ buf_cnt < num_bufs
    /\ buf_available' = TRUE
    /\ lock' = "free"
    /\ pc' = "render_mix"
    /\ UNCHANGED <<audio_dev, clocks, ring, num_bufs, sdl, ret, dev_name,
                   num_audio_buffers, psg_buf, pcm_buf, ym_buf, cb, len, stream, proc,
                   last, hist>>

\* A producer that makes room in a full ring by dropping the oldest frame.
render_check_evict ==
    /\ proc = "running"
    /\ pc = "render_check"
    /\ buf_available' = TRUE
    /\ IF buf_cnt < num_bufs
         THEN UNCHANGED <<rdidx, buf_cnt>>
         ELSE rdidx' = (rdidx + 1) % num_bufs /\ buf_cnt' = buf_cnt - 1
    /\ lock' = "free"
    /\ pc' = "render_mix"
    /\ UNCHANGED <<audio_dev, clocks, wridx, buffers, num_bufs, sdl, ret, dev_name,
                   num_audio_buffers, psg_buf, pcm_buf, ym_buf, cb, len, stream, proc,
                   last, hist>>

\* A check that reports the ring full one frame early.
BufAvailable_early == buf_cnt < num_bufs - 1

\* line 173
BufAvailable == buf_cnt < num_bufs

\* lines 173-176: the availability check, the unlock, the branch on it
render_check ==
    /\ proc = "running"
    /\ pc = "render_check"
    /\ buf_available' = BufAvailable
    /\ lock' = "free"
    /\ IF buf_available'
         THEN pc' = "render_mix" /\ UNCHANGED <<psg_buf, pcm_buf, ym_buf>>
         ELSE pc' = "render_loop" /\ psg_buf' = <<>> /\ pcm_buf' = <<>> /\ ym_buf' = <<>>
    /\ UNCHANGED <<audio_dev, clocks, ring, num_bufs, sdl, ret, dev_name,
                   num_audio_buffers, cb, len, stream, proc, last, hist>>

\* lines 177-181: the mix into buffers[wridx], made without the lock
render_mix ==
    /\ proc = "running"
    /\ pc = "render_mix"
    /\ \E crash \in MayCrash(wridx) :
          IF crash
            THEN proc' = "crashed" /\ UNCHANGED <<buffers, pc>>
            ELSE /\ buffers' = IF InBounds(wridx)
                                 THEN [buffers EXCEPT ![wridx] = Mix(psg_buf, pcm_buf, ym_buf)]
                                 ELSE buffers
                 /\ pc' = "render_lock2"
                 /\ UNCHANGED proc
    /\ UNCHANGED <<audio_dev, clocks, rdidx, wridx, buf_cnt, num_bufs, sdl, lock, ret,
                   dev_name, num_audio_buffers, locals, cb, len, stream, last, hist>>

\* line 183: SDL_LockAudioDevice
render_lock2 ==
    /\ proc = "running"
    /\ pc = "render_lock2"
    /\ lock = "free"
    /\ lock' = "producer"
    /\ pc' = "render_commit"
    /\ UNCHANGED <<audio_dev, clocks, ring, num_bufs, sdl, ret, dev_name,
                   num_audio_buffers, locals, cb, len, stream, proc, last, hist>>

\* lines 184-190: the commit of the push, the unlock, the end of the loop body
render_commit ==
    /\ proc = "running"
    /\ pc = "render_commit"
    /\ wridx' = IF wridx + 1 = num_bufs THEN 0 ELSE wridx + 1
    /\ buf_cnt' = buf_cnt + 1
    /\ lock' = "free"
    /\ pushed' = Append(pushed, Mix(psg_buf, pcm_buf, ym_buf))
    /\ psg_buf' = <<>> /\ pcm_buf' = <<>> /\ ym_buf' = <<>>
    /\ pc' = "render_loop"
    /\ UNCHANGED <<audio_dev, clocks, rdidx, buffers, num_bufs, sdl, ret, dev_name,
                   num_audio_buffers, buf_available, cb, len, stream, proc, last,
                   tot_ticks, triggers, calls, popped>>

----------------------------------------------------------------------------
(* audio_callback, run by SDL's audio thread with the device lock held *)

\* SDL takes the device lock and calls audio_callback(userdata, stream, l)
cb_enter(l) ==
    /\ proc = "running"
    /\ sdl = "playing"
    /\ cb = "idle"
    /\ lock = "free"
    /\ lock' = "callback"
    /\ cb' = "run"
    /\ len' = l
    /\ stream' = <<>>
    /\ UNCHANGED <<audio_dev, clocks, ring, num_bufs, sdl, pc, ret, dev_name,
                   num_audio_buffers, locals, proc, last, hist>>

\* A callback that takes any length for the expected one.
LenMismatch_unchecked == FALSE

\* lines 39-40: the length test
LenMismatch == len # Expected

\* lines 32-55, then SDL releases the device lock
audio_callback ==
    /\ proc = "running"
    /\ cb = "run"
    /\ IF audio_dev = 0 \/ LenMismatch
         THEN UNCHANGED <<stream, rdidx, buf_cnt, popped, proc>>
         ELSE IF buf_cnt = 0
           THEN /\ stream' = Silence
                /\ UNCHANGED <<rdidx, buf_cnt, popped, proc>>
           ELSE \E crash \in MayCrash(rdidx) :
                  IF crash
                    THEN proc' = "crashed" /\ UNCHANGED <<stream, rdidx, buf_cnt, popped>>
                    ELSE \E f \in SlotRead(rdidx) :
                           /\ stream' = f
                           /\ rdidx' = IF rdidx + 1 = num_bufs THEN 0 ELSE rdidx + 1
                           /\ buf_cnt' = buf_cnt - 1
                           /\ popped' = Append(popped, f)
                           /\ UNCHANGED proc
    /\ lock' = "free"
    /\ cb' = "idle"
    /\ UNCHANGED <<audio_dev, clocks, wridx, buffers, num_bufs, sdl, pc, ret, dev_name,
                   num_audio_buffers, locals, len, last, tot_ticks, triggers, calls,
                   pushed>>

----------------------------------------------------------------------------
(* The program: the emulator thread calls audio_init, audio_close and       *)
(* audio_render one after the other; the audio thread runs audio_callback   *)
(* whenever the device plays.                                               *)

Next ==
    \/ \E name \in DevNames, n \in Requests : audio_init(name, n)
    \/ init_body
    \/ audio_close
    \/ close_sdl
    \/ close_dev0
    \/ close_free
    \/ \E t \in SessionTicks : audio_render(t) /\ UNCHANGED calls
    \/ render_loop
    \/ render_lock1
    \/ render_check
    \/ render_mix
    \/ render_lock2
    \/ render_commit
    \/ \E l \in Lens : cb_enter(l)
    \/ audio_callback

Spec == Init /\ [][Next]_vars

(* One session of the producer alone, fed with tick counts around the       *)
(* conversion and threshold boundaries.                                     *)

ClockRender(t) == calls < MaxCalls /\ audio_render(t) /\ calls' = calls + 1

NextClock ==
    \/ audio_dev = 0 /\ audio_init("default", MinBufs)
    \/ init_body
    \/ \E t \in ClockTicks : ClockRender(t)
    \/ render_loop
    \/ render_lock1
    \/ render_check
    \/ render_mix
    \/ render_lock2
    \/ render_commit

SpecClock == Init /\ [][NextClock]_vars

(* The steps audio_render takes once entered. *)

RenderStep ==
    \/ render_loop
    \/ render_lock1
    \/ render_check
    \/ render_mix
    \/ render_lock2
    \/ render_commit

(* Sessions opened, and re-opened, with buffer counts below, at and above  *)
(* the two limits; no frame is rendered.                                    *)

ClampRequests == {-1, 0, 1, 2, 3, 4, 1023, 1024, 1025, 5000}

NextClamp ==
    \/ \E n \in ClampRequests : audio_init("default", n)
    \/ init_body
    \/ close_sdl
    \/ close_dev0
    \/ close_free

SpecClamp == Init /\ [][NextClamp]_vars

(* Each thread, while it is scheduled, goes on: the emulator thread through   *)
(* audio_render, the audio thread through a callback it has begun.  Nothing  *)
(* obliges SDL to begin another callback, or the emulator to make a call.    *)

SpecFair == Spec /\ WF_vars(RenderStep) /\ WF_vars(audio_callback)

(* The audio device, while it plays, goes on asking for frames of the      *)
(* expected length: such a callback begins again and again, although the    *)
(* producer takes the lock from time to time.                               *)

SpecDeliver == SpecFair /\ SF_vars(cb_enter(Expected))

(* The mixer on its own: one trigger of an open session whose three sources  *)
(* have delivered samples drawn from the corners of the 16-bit range.        *)

EdgeSamples == {-32768, -32767, -2, -1, 0, 1, 3, 4, 5, 32767}

Alt(a, b) == [i \in 1..FrameLen |-> IF i % 2 = 1 THEN a ELSE b]

InitMix ==
    /\ audio_dev = DevId
    /\ vera_clks = (41944 \div CpuPerGroup) * VeraPerGroup - Threshold
    /\ cpu_clks = 0
    /\ num_bufs = Clamp(1)
    /\ buffers = [i \in 0..(num_bufs - 1) |-> <<>>]
    /\ rdidx = 0
    /\ wridx = 0
    /\ buf_cnt = 0
    /\ sdl = "playing"
    /\ lock = "free"
    /\ pc = "render_mix"
    /\ ret = "idle"
    /\ dev_name = "default"
    /\ num_audio_buffers = 1
    /\ \E a \in EdgeSamples, b \in EdgeSamples, c \in EdgeSamples :
          /\ psg_buf = Alt(a, b)
          /\ pcm_buf = Alt(b, c)
          /\ ym_buf = Alt(c, a)
    /\ buf_available = TRUE
    /\ cb = "idle"
    /\ len = 0
    /\ stream = <<>>
    /\ proc = "running"
    /\ last = "audio_render"
    /\ tot_ticks = 41944
    /\ triggers = 1
    /\ calls = 0
    /\ pushed = <<>>
    /\ popped = <<>>

NextMix ==
    \/ render_mix
    \/ render_lock2
    \/ render_commit
    \/ render_loop

SpecMix == InitMix /\ [][NextMix]_vars

----------------------------------------------------------------------------
(* The clock accumulator (audio_render, lines 152-160) *)

RenderPcs == {"render_loop", "render_lock1", "render_check", "render_mix",
              "render_lock2", "render_commit"}

\* floor(V / threshold) for V = 25 * tot_ticks / 8 taken as an exact rational
RefTriggers == (VeraPerGroup * tot_ticks) \div (CpuPerGroup * Threshold)

\* The device ticks converted so far: every tick but the carried cpu_clks.
Converted == VeraPerGroup * ((tot_ticks - cpu_clks) \div CpuPerGroup)

\* C1 (as claimed): whenever audio_render has returned, the number of render
\* triggers so far equals floor(V / threshold), V = 25 * (sum of the ticks) / 8
\* as an exact rational: the count neither lags nor leads that reference.
C1_NoDriftExact == (pc = "idle" /\ proc = "running") => triggers = RefTriggers

\* C1 (amended): whenever audio_render has returned, the carried remainder
\* cpu_clks lies in 0..8, the ticks converted are the whole groups of 8 among
\* the other ticks, the number of triggers is floor(converted / threshold) with
\* vera_clks the rest, and the count never leads floor(V / threshold) and lags
\* it by at most one trigger.
C1_NoDriftCarried ==
    (pc = "idle" /\ proc = "running") =>
        /\ cpu_clks \in 0..CpuPerGroup
        /\ (tot_ticks - cpu_clks) % CpuPerGroup = 0
        /\ vera_clks \in 0..(Threshold - 1)
        /\ triggers * Threshold + vera_clks = Converted
        /\ triggers = Converted \div Threshold
        /\ RefTriggers - triggers \in {0, 1}

\* Several calls with a carried remainder have produced several triggers.
C1_Witness ==
    /\ pc = "idle" /\ proc = "running"
    /\ calls >= 2 /\ triggers >= 2 /\ cpu_clks # 0

----------------------------------------------------------------------------
(* The ring (audio_callback lines 45-54, audio_render lines 171-190) *)

IsPrefix(s, t) == Len(s) <= Len(t) /\ SubSeq(t, 1, Len(s)) = s

\* The session is open: audio_init has started the device, audio_close has not
\* yet closed it.
Open == sdl = "playing"

\* The session began with buf_cnt = 0: every commit adds one to buf_cnt and to
\* pushed, every pop takes one from buf_cnt and adds one to popped.
StartedEmpty == buf_cnt = Len(pushed) - Len(popped)

\* A callback invocation returns in this step.
CallbackReturns == cb = "run" /\ cb' = "idle"

\* C2 (as claimed): in a session that started from an empty ring, the frames
\* copied to the output by the successful pops are, in order, the first of the
\* frames pushed: none duplicated, reordered or overwritten, and never more
\* frames popped than pushed.
C2_FifoDelivery == (Open /\ StartedEmpty) => IsPrefix(popped, pushed)

\* C3 (as claimed): in every state of a session buf_cnt lies in 0..num_bufs, and
\* a pop at buf_cnt = 0 is reported as Empty (silence) and leaves buf_cnt at 0.
C3_RingBound ==
    [][ /\ (Open' => buf_cnt' \in 0..num_bufs')
        /\ (CallbackReturns /\ len = Expected /\ buf_cnt = 0 /\ proc' = "running")
              => (stream' = Silence /\ buf_cnt' = 0) ]_vars

\* C5 (as claimed): a callback with the expected length zero-fills the output
\* and leaves the ring alone when buf_cnt = 0, copies the slot at rdidx when
\* buf_cnt > 0; and no callback returns with the output region unwritten.
C5_UnderrunPolicy ==
    [][ (CallbackReturns /\ proc' = "running") =>
          /\ stream' # <<>>
          /\ (len = Expected /\ buf_cnt = 0) => (stream' = Silence /\ UNCHANGED ring)
          /\ (len = Expected /\ buf_cnt > 0) =>
                (InBounds(rdidx) /\ stream' = buffers[rdidx]) ]_vars

\* C6 (as claimed): once a callback was invoked with a length other than the
\* expected one and has returned, the process has terminated.
C6_MismatchFatal ==
    (cb = "idle" /\ len # 0 /\ len # Expected) => proc # "running"

\* C6 (amended): a callback invoked with a length other than the expected one
\* returns at once: the output region is left unwritten, the ring, the clocks
\* and the device are untouched, and the process keeps running.
C6_MismatchReturns ==
    [][ (CallbackReturns /\ len # Expected) =>
          /\ proc' = "running"
          /\ stream' = <<>>
          /\ UNCHANGED <<ring, clocks, audio_dev, num_bufs, sdl, pc, popped>> ]_vars

\* A callback with a wrong length has returned on an open session that still
\* holds queued frames.
C6_Witness ==
    /\ cb = "idle" /\ len # 0 /\ len # Expected
    /\ proc = "running" /\ Open /\ buf_cnt > 0 /\ stream = <<>>

\* C9 (as claimed): whenever the session is open, buf_cnt lies in 0..num_bufs
\* and both indices name one of the num_bufs allocated slots.
C9_ReopenWellFormed ==
    Open => /\ buf_cnt \in 0..num_bufs
            /\ rdidx \in 0..(num_bufs - 1)
            /\ wridx \in 0..(num_bufs - 1)
            /\ DOMAIN buffers = 0..(num_bufs - 1)

----------------------------------------------------------------------------
(* Blocking, the mixer, the disabled device, shutdown *)

\* C4: neither thread waits for the other to change the ring.  The device lock
\* is held by the callback exactly while it runs and by the producer exactly in
\* its two critical sections; a running callback can always take its step; the
\* producer inside audio_render can always take its step unless the callback
\* holds the lock.  Hence a callback that has begun returns, and every
\* audio_render call returns once no callback holds the lock for good, also
\* when the ring stays full or stays empty.
C4_NonBlockingState ==
    proc = "running" =>
        /\ (lock = "callback") <=> (cb = "run")
        /\ (lock = "producer") <=> (pc \in {"render_check", "render_commit"})
        /\ (cb = "run") => ENABLED audio_callback
        /\ (pc \in RenderPcs /\ lock # "callback") => ENABLED RenderStep

C4_NonBlocking ==
    /\ []C4_NonBlockingState
    /\ (cb = "run") ~> (cb = "idle" \/ proc # "running")
    /\ (<>[](cb = "idle")) => ((pc \in RenderPcs) ~> (pc = "idle" \/ proc # "running"))

\* The producer is inside audio_render with the ring full and no callback running.
C4_Witness ==
    /\ proc = "running" /\ Open
    /\ pc = "render_check" /\ buf_cnt = num_bufs /\ cb = "idle"

\* C7: every sample the mixer stores is the quotient (a + b + c) / 3 rounded
\* toward zero of the three sources' samples at that index, the sum formed
\* without 16-bit wrap-around, and lies in -32768..32767.
C7_MixCorrect ==
    (pc \in {"render_lock2", "render_commit"} /\ InBounds(wridx)) =>
        \A i \in 1..FrameLen :
            LET sum == psg_buf[i] + pcm_buf[i] + ym_buf[i]
                q   == buffers[wridx][i]
            IN  /\ q \in -32768..32767
                /\ (sum >= 0) => (MixSources * q <= sum /\ sum < MixSources * q + MixSources)
                /\ (sum <= 0) => (MixSources * q >= sum /\ sum > MixSources * q - MixSources)

\* The mixer has stored -1 for the samples -2, -2, -1 (and 32767 for three 32767
\* is reached likewise).
C7_Witness ==
    /\ pc = "render_lock2"
    /\ psg_buf[1] = -2 /\ pcm_buf[1] = -2 /\ ym_buf[1] = -1
    /\ buffers[wridx][1] = -1

\* C8: once audio_init("none", n) has returned no device is open, and every
\* audio_render and audio_close made then returns at once and leaves the
\* clocks, the ring, the device and the history of triggers and pushes as
\* they were.
C8_DisabledNoOp ==
    [][ /\ (dev_name' = "none" /\ pc' = "idle") => (audio_dev' = 0 /\ sdl' = "closed")
        /\ (dev_name = "none" /\ pc = "idle" /\ last' \in {"audio_render", "audio_close"})
              => /\ pc' = "idle"
                 /\ UNCHANGED <<audio_dev, clocks, ring, num_bufs, sdl, lock, cb,
                                tot_ticks, triggers, pushed, popped>> ]_vars

\* After audio_init("none", n) on a session that had queued frames, an
\* audio_render has returned.
C8_Witness ==
    /\ dev_name = "none" /\ pc = "idle" /\ last = "audio_render"
    /\ buf_cnt > 0 /\ vera_clks > 0

\* C10: the callback runs only while the device plays, and the device plays
\* only while the slots are allocated and audio_dev is set: no callback runs
\* once a slot is released, and none begins after audio_close has returned.
C10_ShutdownOrder ==
    /\ (cb = "run") => Open
    /\ Open => (buffers # <<>> /\ audio_dev # 0 /\ pc \notin {"close_dev0", "close_free"})
    /\ (pc = "idle" /\ last = "audio_close") => (~Open /\ cb = "idle")

\* audio_close, reached through audio_init, has released the slots of a session
\* whose callback had copied frames out.
C10_Witness ==
    /\ pc = "init_body" /\ last = "audio_init"
    /\ buffers = <<>> /\ popped # <<>> /\ sdl = "closed"

\* C11: audio_close called while no device is open returns at once and changes
\* nothing, so a second audio_close leaves the state the first one left; a
\* completed audio_close leaves the device closed and the slots released, and
\* the slots are released only when they are allocated, never a second time.
C11_CloseIdempotent ==
    [][ /\ (pc = "idle" /\ audio_dev = 0 /\ last' = "audio_close")
              => /\ pc' = "idle"
                 /\ UNCHANGED <<audio_dev, clocks, ring, num_bufs, sdl, lock, cb,
                                stream, proc, hist>>
        /\ (pc = "close_free" /\ pc' # "close_free")
              => (buffers # <<>> /\ buffers' = <<>> /\ audio_dev = 0 /\ sdl = "closed")
        /\ (pc' = "idle" /\ last' = "audio_close")
              => (audio_dev' = 0 /\ sdl' = "closed" /\ buffers' = <<>>) ]_vars

\* audio_close has returned on a session that held queued frames; a second
\* audio_close can be called in this state.
C11_Witness ==
    /\ pc = "idle" /\ last = "audio_close" /\ proc = "running"
    /\ audio_dev = 0 /\ buffers = <<>> /\ buf_cnt > 0 /\ pushed # <<>>
    /\ ENABLED audio_close

\* C12: once audio_init with a real device has returned, num_bufs is the
\* requested count raised to 3 if below and lowered to 1024 if above, that is
\* min(max(r, 3), 1024), and exactly the slots 0..num_bufs-1 are allocated:
\* 1 gives 3, 5000 gives 1024, 3 gives 3.
C12_CapacityClamp ==
    (pc = "idle" /\ Open) =>
        LET r     == num_audio_buffers
            atl3  == IF r > 3 THEN r ELSE 3
            want  == IF atl3 < 1024 THEN atl3 ELSE 1024
        IN  /\ num_bufs = want
            /\ DOMAIN buffers = 0..(want - 1)
            /\ Cardinality(DOMAIN buffers) = want
            /\ (r = 1) => (num_bufs = 3)
            /\ (r = 5000) => (num_bufs = 1024)
            /\ (r = 3) => (num_bufs = 3)

\* A session asked for 5000 buffers is open with 1024 slots.
C12_Witness ==
    /\ pc = "idle" /\ Open /\ last = "audio_init"
    /\ num_audio_buffers = 5000 /\ num_bufs = 1024
    /\ Cardinality(DOMAIN buffers) = 1024

\* C13 as stated: in a session that starts with an empty ring, with no pop in
\* between, the push made after num_bufs - 1 successful pushes finds the ring
\* full.
C13_FullAtCapacityMinusOne ==
    [][ ( /\ pc = "render_check" /\ pc' # "render_check"
          /\ Open /\ StartedEmpty /\ popped = <<>>
          /\ Len(pushed) = num_bufs - 1 )
        => ~buf_available' ]_vars

\* C13 amended: a push finds the ring full exactly when buf_cnt has reached
\* num_bufs at its check; from buf_cnt = 0, with no pop in between, the first
\* num_bufs pushes succeed, the last of them too, and the next one is dropped.
C13_FullAtCapacity ==
    [][ (pc = "render_check" /\ pc' # "render_check")
        => /\ buf_available' = (buf_cnt < num_bufs)
           /\ (StartedEmpty /\ popped = <<>>)
                 => (buf_available' <=> Len(pushed) < num_bufs)
           /\ pc' = IF buf_available' THEN "render_mix" ELSE "render_loop" ]_vars

\* After num_bufs pushes and no pop, one more push has been dropped.
C13_Witness ==
    /\ Open /\ pc = "render_loop" /\ ~buf_available
    /\ StartedEmpty /\ popped = <<>> /\ Len(pushed) = num_bufs
    /\ triggers > Len(pushed)

\* C14 as stated: from the availability check to the commit the producer
\* holds the device lock, so the mix into buffers[wridx] is made under the
\* lock and one push is one critical section.
C14_SingleCriticalSection ==
    (pc \in {"render_check", "render_mix", "render_commit"}) => (lock = "producer")

\* C14 amended: the producer reads buf_cnt, and advances wridx and buf_cnt,
\* only with the device lock held, in two separate critical sections; between
\* them it writes the mixed frame into buffers[wridx] without the lock, and
\* changes neither index nor the count there.
C14_TwoCriticalSections ==
    [][ /\ (pc = "render_check" /\ pc' # pc)
              => (lock = "producer" /\ lock' = "free" /\ UNCHANGED ring)
        /\ (pc = "render_mix" /\ pc' # pc)
              => (lock # "producer" /\ UNCHANGED <<rdidx, wridx, buf_cnt, lock>>)
        /\ (pc = "render_commit" /\ pc' # pc)
              => (lock = "producer" /\ lock' = "free" /\ UNCHANGED buffers)
        /\ (pc \in RenderPcs /\ pc' # pc /\ (buf_cnt' # buf_cnt \/ wridx' # wridx))
              => pc = "render_commit"
        /\ (lock' = "producer") <=> (pc' \in {"render_check", "render_commit"}) ]_vars

\* The producer has mixed a frame into buffers[wridx] while the callback held
\* the lock.
C14_Witness ==
    /\ pc = "render_lock2" /\ lock = "callback" /\ cb = "run"
    /\ InBounds(wridx) /\ buffers[wridx] = Mix(psg_buf, pcm_buf, ym_buf)

\* C15: on an open session, whenever audio_render has returned, cpu_clks lies
\* in 0..7: fewer than 8 processor ticks remain unconverted.
C15_CpuRemainderRange ==
    (Open /\ pc = "idle" /\ last = "audio_render") => (cpu_clks \in 0..(CpuPerGroup - 1))

\* C16: buf_cnt changes only by +1, in the producer's commit, or by -1, in the
\* callback, each time with the device lock held by that thread and in the
\* same step as the matching index advancing by one modulo num_bufs (wridx
\* with +1, rdidx with -1); neither index changes otherwise, the emulator
\* thread never changes rdidx, and the callback never changes wridx, cpu_clks
\* or vera_clks.
C16_CountIndexStep ==
    [][ /\ (buf_cnt' # buf_cnt) =>
              \/ /\ buf_cnt' = buf_cnt + 1
                 /\ pc = "render_commit" /\ lock = "producer"
                 /\ wridx' = (wridx + 1) % num_bufs
                 /\ rdidx' = rdidx
              \/ /\ buf_cnt' = buf_cnt - 1
                 /\ cb = "run" /\ lock = "callback"
                 /\ rdidx' = (rdidx + 1) % num_bufs
                 /\ wridx' = wridx
        /\ (wridx' # wridx) => (buf_cnt' = buf_cnt + 1)
        /\ (rdidx' # rdidx) => (buf_cnt' = buf_cnt - 1)
        /\ (pc' # pc) => (rdidx' = rdidx)
        /\ CallbackReturns => UNCHANGED <<wridx, clocks>> ]_vars

\* C17: a render trigger takes its threshold from vera_clks before the ring is
\* looked at, whether or not the frame is then enqueued; when its availability
\* check finds buf_cnt = num_bufs the frame is discarded, the process keeps
\* running, and no step of that trigger changes rdidx, wridx, buf_cnt or a
\* slot.
C17_DropLeavesRing ==
    [][ /\ (pc = "render_loop" /\ pc' = "render_lock1")
              => (vera_clks' = vera_clks - Threshold /\ triggers' = triggers + 1)
        /\ (pc \in {"render_loop", "render_lock1"} /\ pc' # pc) => UNCHANGED ring
        /\ (pc = "render_check" /\ pc' # pc /\ buf_cnt = num_bufs)
              => /\ pc' = "render_loop" /\ ~buf_available' /\ proc' = "running"
                 /\ UNCHANGED <<ring, clocks, pushed, popped, triggers>> ]_vars

\* A trigger has found every slot queued and has dropped its frame.
C17_Witness ==
    /\ Open /\ proc = "running" /\ pc = "render_loop" /\ ~buf_available
    /\ buf_cnt = num_bufs /\ triggers > Len(pushed)
    /\ \A i \in DOMAIN buffers : buffers[i] # <<>>

\* C18: from the availability check that found room until the commit, the
\* slot at wridx, which the producer writes without the lock, is none of the
\* buf_cnt queued slots rdidx, rdidx + 1, ... (modulo num_bufs), is not the
\* slot a running callback copies from, and buf_cnt is still below num_bufs.
C18_NoSlotReadAndWritten ==
    (Open /\ pc \in {"render_mix", "render_lock2", "render_commit"}) =>
        LET queued == {(rdidx + k) % num_bufs : k \in 0..(buf_cnt - 1)}
        IN  /\ wridx \notin queued
            /\ (cb = "run" /\ buf_cnt > 0) => (wridx # rdidx)
            /\ buf_cnt < num_bufs

\* C19: whenever a session is open and the device lock is free, the distance
\* from rdidx to wridx equals buf_cnt modulo num_bufs, and where the indices
\* are equal buf_cnt is 0 (ring empty) or num_bufs (ring full).
C19_IndexCountConsistent ==
    (Open /\ lock = "free") =>
        /\ (wridx - rdidx) % num_bufs = buf_cnt % num_bufs
        /\ (wridx = rdidx) => (buf_cnt \in {0, num_bufs})

\* C20: a frame enqueued in an open session when the ring then holds buf_cnt
\* frames has been copied to the output once buf_cnt more callbacks of the
\* expected length have each copied a frame out (the callbacks that popped
\* before them included, the n-th frame enqueued is among the first
\* buf_cnt - pushes + pops + n frames popped); and, such callbacks recurring,
\* the n-th frame enqueued eventually leaves the queue, unless the session
\* ends first.
C20_EventualDelivery ==
    /\ [] ( Open =>
              LET stale == buf_cnt - Len(pushed) + Len(popped)
              IN  \A n \in 1..Len(pushed) :
                     (Len(popped) >= stale + n)
                        => \E j \in 1..(stale + n) : popped[j] = pushed[n] )
    /\ \A n \in 1..MaxTriggers :
          (Open /\ Len(pushed) >= n)
             ~> \/ ~Open
                \/ proc # "running"
                \/ Len(pushed) - buf_cnt >= n

============================================================================
